---- MODULE Spec2Model ----
(***************************************************************************)
(* Model of the request handlers of the spotR-ai micro service:            *)
(*   validatePost, validateData  (controllers/validate.controller.js)      *)
(*   identifyCar                 (controllers/identify.controller.js)      *)
(* Each handler is an async function; one action of the model is one       *)
(* synchronous run of a handler between two awaits.  The collaborators     *)
(* (media store, completion service, persistence service, file system)     *)
(* answer nondeterministically.                                            *)
(***************************************************************************)
EXTENDS Integers, Sequences, FiniteSets, TLC

(***************************************************************************)
(* JavaScript values.  Every value is a record tagged by t; a string holds *)
(* its text as a sequence of tokens, an object its members in insertion    *)
(* order.                                                                  *)
(***************************************************************************)
Undefined == [t |-> "undefined"]
Null == [t |-> "null"]
Bool(b) == [t |-> "bool", b |-> b]
Num(n) == [t |-> "num", n |-> n]
Str(s) == [t |-> "str", s |-> s]
Arr(items) == [t |-> "arr", items |-> items]
Obj(members) == [t |-> "obj", members |-> members]
Member(k, v) == [k |-> k, v |-> v]

(***************************************************************************)
(* Text.  A text is a sequence of tokens; a token stands for a run of      *)
(* characters of one lexical kind.                                         *)
(***************************************************************************)
P(c) == [k |-> "punct", c |-> c]
Ws == [k |-> "ws"]
Lit(c) == [k |-> "lit", c |-> c]
NumTok(n) == [k |-> "num", n |-> n]
StrTok(c) == [k |-> "str", c |-> c]
Word(w) == [k |-> "word", w |-> w]
Fence == [k |-> "fence"]
FenceJson == [k |-> "fencejson"]
Tick == [k |-> "tick"]

\* A string literal of one word
S(w) == Str(<<Word(w)>>)

\* ToBoolean: the truthiness test of !x and x || y
Truthy(v) ==
  CASE v.t = "undefined" -> FALSE
    [] v.t = "null" -> FALSE
    [] v.t = "bool" -> v.b
    [] v.t = "num" -> v.n # 0
    [] v.t = "str" -> Len(v.s) > 0
    [] OTHER -> TRUE

\* obj[k] on an object value: the member's value, or undefined
Get(o, k) ==
  IF o.t = "obj" /\ \E i \in 1..Len(o.members) : o.members[i].k = k
  THEN o.members[CHOOSE i \in 1..Len(o.members) : o.members[i].k = k].v
  ELSE Undefined

\* Reading a property of null or undefined throws a TypeError
PropThrows(v) == v.t \in {"undefined", "null"}

\* Setting a member while parsing: a repeated key keeps its first position
\* and takes the last value
Put(members, k, v) ==
  IF \E i \in 1..Len(members) : members[i].k = k
  THEN [i \in 1..Len(members) |->
          IF members[i].k = k THEN Member(k, v) ELSE members[i]]
  ELSE Append(members, Member(k, v))

(***************************************************************************)
(* JSON.parse over a token text                                            *)
(***************************************************************************)
ParseFail == [ok |-> FALSE, val |-> Undefined, next |-> 0]
ParseOk(v, n) == [ok |-> TRUE, val |-> v, next |-> n]

RECURSIVE SkipWs(_, _)
SkipWs(toks, i) ==
  IF i <= Len(toks) /\ toks[i].k = "ws" THEN SkipWs(toks, i + 1) ELSE i

IsPunct(toks, i, c) ==
  i <= Len(toks) /\ toks[i].k = "punct" /\ toks[i].c = c

RECURSIVE ParseValue(_, _)
RECURSIVE ParseMembers(_, _, _)
RECURSIVE ParseItems(_, _, _)

\* a value starting at or after position i (leading whitespace skipped)
ParseValue(toks, i0) ==
  LET i == SkipWs(toks, i0) IN
  IF i > Len(toks) THEN ParseFail
  ELSE LET tk == toks[i] IN
    CASE tk.k = "lit" ->
           ParseOk(IF tk.c = "null" THEN Null ELSE Bool(tk.c = "true"), i + 1)
      [] tk.k = "num" -> ParseOk(Num(tk.n), i + 1)
      [] tk.k = "str" ->
           ParseOk(IF tk.c = "" THEN Str(<<>>) ELSE S(tk.c), i + 1)
      [] tk.k = "punct" /\ tk.c = "{" ->
           LET j == SkipWs(toks, i + 1) IN
           IF IsPunct(toks, j, "}") THEN ParseOk(Obj(<<>>), j + 1)
           ELSE ParseMembers(toks, j, <<>>)
      [] tk.k = "punct" /\ tk.c = "[" ->
           LET j == SkipWs(toks, i + 1) IN
           IF IsPunct(toks, j, "]") THEN ParseOk(Arr(<<>>), j + 1)
           ELSE ParseItems(toks, j, <<>>)
      [] OTHER -> ParseFail

\* "key": value members up to the closing brace
ParseMembers(toks, i0, acc) ==
  LET i == SkipWs(toks, i0) IN
  IF ~(i <= Len(toks) /\ toks[i].k = "str") THEN ParseFail
  ELSE LET c == SkipWs(toks, i + 1) IN
    IF ~IsPunct(toks, c, ":") THEN ParseFail
    ELSE LET r == ParseValue(toks, c + 1) IN
      IF ~r.ok THEN ParseFail
      ELSE LET acc2 == Put(acc, toks[i].c, r.val)
               j == SkipWs(toks, r.next) IN
        IF IsPunct(toks, j, "}") THEN ParseOk(Obj(acc2), j + 1)
        ELSE IF IsPunct(toks, j, ",") THEN ParseMembers(toks, j + 1, acc2)
        ELSE ParseFail

\* array items up to the closing bracket
ParseItems(toks, i0, acc) ==
  LET r == ParseValue(toks, i0) IN
  IF ~r.ok THEN ParseFail
  ELSE LET acc2 == Append(acc, r.val)
           j == SkipWs(toks, r.next) IN
    IF IsPunct(toks, j, "]") THEN ParseOk(Arr(acc2), j + 1)
    ELSE IF IsPunct(toks, j, ",") THEN ParseItems(toks, j + 1, acc2)
    ELSE ParseFail

\* JSON.parse(text): one value, nothing but whitespace after it; ok = FALSE
\* stands for the SyntaxError
JSONParse(toks) ==
  LET r == ParseValue(toks, 1) IN
  IF r.ok /\ SkipWs(toks, r.next) > Len(toks) THEN r ELSE ParseFail

(***************************************************************************)
(* Regular-expression matches and string helpers                           *)
(***************************************************************************)
Opens(toks) == {i \in 1..Len(toks) : IsPunct(toks, i, "{")}
Closes(toks) == {i \in 1..Len(toks) : IsPunct(toks, i, "}")}
Min(s) == CHOOSE m \in s : \A n \in s : m <= n
Max(s) == CHOOSE m \in s : \A n \in s : m >= n

\* a match result: found = FALSE is the null of String.prototype.match
NoMatch == [found |-> FALSE, text |-> <<>>]
Match(toks, a, b) == [found |-> TRUE, text |-> SubSeq(toks, a, b)]

\* a greedy match that ends at the first "}" after its "{"
GreedyMatchNarrow(toks) ==
  LET starts == {i \in Opens(toks) : \E j \in Closes(toks) : j > i} IN
  IF starts = {} THEN NoMatch
  ELSE Match(toks, Min(starts), Min({j \in Closes(toks) : j > Min(starts)}))

\* result.match(/\{[\s\S]*\}/): from the first "{" that has a "}" after
\* it to the last "}" of the text
GreedyMatch(toks) ==
  LET starts == {i \in Opens(toks) : \E j \in Closes(toks) : j > i} IN
  IF starts = {} THEN NoMatch
  ELSE Match(toks, Min(starts), Max(Closes(toks)))

\* tags.split(','): the pieces between the commas
RECURSIVE Split(_)
Split(toks) ==
  LET commas == {i \in 1..Len(toks) : IsPunct(toks, i, ",")} IN
  IF commas = {} THEN <<toks>>
  ELSE LET c == Min(commas) IN
    <<SubSeq(toks, 1, c - 1)>> \o Split(SubSeq(toks, c + 1, Len(toks)))

\* String.prototype.trim
RECURSIVE Trim(_)
Trim(toks) ==
  IF toks = <<>> THEN toks
  ELSE IF Head(toks).k = "ws" THEN Trim(Tail(toks))
  ELSE IF toks[Len(toks)].k = "ws" THEN Trim(SubSeq(toks, 1, Len(toks) - 1))
  ELSE toks

\* the characters of a text (a backquote is written ')
RECURSIVE Chars(_)
Chars(toks) ==
  IF toks = <<>> THEN ""
  ELSE LET tk == Head(toks) IN
    (CASE tk.k = "punct" -> tk.c
       [] tk.k = "ws" -> " "
       [] tk.k = "lit" -> tk.c
       [] tk.k = "num" -> ToString(tk.n)
       [] tk.k = "str" -> "\"" \o tk.c \o "\""
       [] tk.k = "word" -> tk.w
       [] tk.k = "fence" -> "'''"
       [] tk.k = "fencejson" -> "'''json"
       [] OTHER -> "'") \o Chars(Tail(toks))

\* JSON.stringify(value): the JSON text of a value; an undefined item of an
\* array is written null, an undefined value gives no text
RECURSIVE JSONStringify(_)
RECURSIVE StringifyItems(_, _)
RECURSIVE StringifyMembers(_, _)
JSONStringify(v) ==
  CASE v.t = "null" -> <<Lit("null")>>
    [] v.t = "bool" -> <<Lit(IF v.b THEN "true" ELSE "false")>>
    [] v.t = "num" -> <<NumTok(v.n)>>
    [] v.t = "str" -> <<StrTok(Chars(v.s))>>
    [] v.t = "arr" -> <<P("[")>> \o StringifyItems(v.items, 1) \o <<P("]")>>
    [] v.t = "obj" -> <<P("{")>> \o StringifyMembers(v.members, 1) \o <<P("}")>>
    [] OTHER -> <<>>

StringifyItems(items, i) ==
  IF i > Len(items) THEN <<>>
  ELSE (IF i > 1 THEN <<P(",")>> ELSE <<>>) \o
       (IF items[i].t = "undefined" THEN <<Lit("null")>>
        ELSE JSONStringify(items[i])) \o
       StringifyItems(items, i + 1)

StringifyMembers(members, i) ==
  IF i > Len(members) THEN <<>>
  ELSE (IF i > 1 THEN <<P(",")>> ELSE <<>>) \o
       <<StrTok(members[i].k), P(":")>> \o JSONStringify(members[i].v) \o
       StringifyMembers(members, i + 1)

\* Error messages of the exceptions the collaborators and the runtime throw
UploadError == "Cloudinary upload failed"
ReadError == "ENOENT: no such file or directory"
GptError == "GPT API Error"
FetchError == "fetch failed"
BodyError == "Unexpected end of JSON input"
SyntaxError == "Unexpected token in JSON"
TypeError == "Cannot read properties of null"

(***************************************************************************)
(* validatePost: pure parts                                                *)
(***************************************************************************)
\* tag parsing whose split keeps the whitespace around the pieces
ParseTagsNoTrim(tags) ==
  IF tags.t = "str"
  THEN LET r == JSONParse(tags.s) IN
       IF r.ok THEN r.val
       ELSE LET pieces == Split(tags.s) IN
            Arr([i \in 1..Len(pieces) |-> Str(pieces[i])])
  ELSE tags

\* lines 12-18: tags given as a string are JSON-parsed, or split on commas
\* when the parse throws
ParseTags(tags) ==
  IF tags.t = "str"
  THEN LET r == JSONParse(tags.s) IN
       IF r.ok THEN r.val
       ELSE LET pieces == Split(tags.s) IN
            Arr([i \in 1..Len(pieces) |-> Str(Trim(pieces[i]))])
  ELSE tags

\* the required-field test without its !tags operand
MissingFieldsTagsUnchecked(body, tags, images) ==
  \/ ~Truthy(Get(body, "brand"))
  \/ ~Truthy(Get(body, "model"))
  \/ ~Truthy(Get(body, "description"))
  \/ ~images.given
  \/ Len(images.paths) < 1

\* lines 22-29: the required-field test (TRUE = the request is refused)
MissingFields(body, tags, images) ==
  \/ ~Truthy(Get(body, "brand"))
  \/ ~Truthy(Get(body, "model"))
  \/ ~Truthy(Get(body, "description"))
  \/ ~Truthy(tags)
  \/ ~images.given
  \/ Len(images.paths) < 1

\* lines 120-129: the parsed reply, or the error thrown
Thrown(msg) == [ok |-> FALSE, val |-> Undefined, err |-> msg]
Returned(v) == [ok |-> TRUE, val |-> v, err |-> ""]

ExtractPost(result) ==
  IF result.t = "null" THEN Returned(Null)
  ELSE LET d == JSONParse(result.s) IN
    IF d.ok THEN Returned(d.val)
    ELSE LET m == GreedyMatch(result.s) IN
      IF m.found
      THEN LET p == JSONParse(m.text) IN
           IF p.ok THEN Returned(p.val) ELSE Thrown(SyntaxError)
      ELSE Thrown("Réponse GPT invalide")

(***************************************************************************)
(* Requests                                                                *)
(***************************************************************************)
Reqs == {"r1", "r2"}
MaxFiles == 2

\* an object of the members that are given (an undefined member is absent)
ObjOf(members) == Obj(SelectSeq(members, LAMBDA m : m.v # Undefined))

Brands == {Undefined, Str(<<>>), S("Toyota")}
Models == {Undefined, S("Corolla")}
Descriptions == {Null, S("Voiture en excellent état")}
TagsJson ==
  <<P("["), StrTok("berline"), P(","), StrTok("fiable"), P("]")>>
TagsList == <<Word("berline"), P(","), Ws, Word("fiable")>>
TagInputs ==
  { Undefined, Null, Arr(<<S("berline"), S("fiable")>>), Arr(<<>>),
    Str(TagsJson), Str(TagsList), Str(<<>>), Str(<<P("["), P("]")>>),
    Str(<<Lit("null")>>), Str(<<NumTok(2020)>>) }

PostBodies ==
  {Undefined} \cup
  { ObjOf(<<Member("brand", b), Member("model", m),
            Member("description", d), Member("tags", t)>>) :
      b \in Brands, m \in Models, d \in Descriptions, t \in TagInputs }

\* req.files: not given, or the list of the temporary files 1..n
NoFiles == [given |-> FALSE, paths |-> <<>>]
Files(n) == [given |-> TRUE, paths |-> [i \in 1..n |-> i]]
FileLists == {NoFiles} \cup {Files(n) : n \in 0..MaxFiles}

\* req.file of identifyCar: not given, given without a path, or file 1
NoFile == [given |-> FALSE, path |-> 0]
FileInputs == {NoFile, [given |-> TRUE, path |-> 0], [given |-> TRUE, path |-> 1]}

DataBodies ==
  { Undefined, Null, Str(<<>>), Obj(<<Member("username", S("testuser"))>>) }

Request(h, body, files, file) ==
  [handler |-> h, body |-> body, files |-> files, file |-> file,
   authorization |-> S("Bearer token")]

NoRequest == Request("none", Undefined, NoFiles, NoFile)

PostRequests ==
  {Request("validatePost", b, f, NoFile) : b \in PostBodies, f \in FileLists}
DataRequests ==
  {Request("validateData", b, NoFiles, NoFile) : b \in DataBodies}
CarRequests ==
  {Request("identifyCar", Undefined, NoFiles, f) : f \in FileInputs}

\* the temporary files multer wrote for a request
TempFiles(r, q) ==
  {<<r, i>> : i \in 1..Len(q.files.paths)} \cup
  (IF q.file.path = 1 THEN {<<r, 1>>} ELSE {})

(***************************************************************************)
(* State                                                                   *)
(***************************************************************************)
VARIABLES
  req,        \* the request each handler invocation received
  pc,         \* where each invocation stands (the await it is suspended at)
  task,       \* validatePost: the upload task of each attached file
  reply,      \* the content of the completion reply (result)
  parsed,     \* the value extracted from the reply (parsed)
  bddResponse,\* validatePost: the ok flag of the persistence response
  bddResult,  \* validatePost: the JSON body of the persistence response
  sent,       \* validatePost: the document and header given to fetch
  messages,   \* the form and the images given to the completion call
  trace,      \* the calls each invocation made on its collaborators and the
              \* exceptions they threw, in order
  responses,  \* the res.status(..).json(..) calls of each invocation
  fs          \* the temporary files that exist

vars ==
  <<req, pc, task, reply, parsed, bddResponse, bddResult, sent, messages,
    trace, responses, fs>>

Ev(op, file) == [op |-> op, file |-> file]
Response(status, body) == [status |-> status, body |-> body]
NotSent == [given |-> FALSE, doc |-> Undefined, authorization |-> Undefined]
NoMessages == [form |-> Undefined, images |-> <<>>]

InitWith(requests) ==
  /\ req \in requests
  /\ pc = [r \in Reqs |-> IF req[r].handler = "none" THEN "unused" ELSE "idle"]
  /\ task = [r \in Reqs |-> <<>>]
  /\ reply = [r \in Reqs |-> Undefined]
  /\ parsed = [r \in Reqs |-> Undefined]
  /\ bddResponse = [r \in Reqs |-> FALSE]
  /\ bddResult = [r \in Reqs |-> Undefined]
  /\ sent = [r \in Reqs |-> NotSent]
  /\ messages = [r \in Reqs |-> NoMessages]
  /\ trace = [r \in Reqs |-> <<>>]
  /\ responses = [r \in Reqs |-> <<>>]
  /\ fs = UNION {TempFiles(r, req[r]) : r \in Reqs}

\* one request, any input of any handler
Init ==
  \E q \in PostRequests \cup DataRequests \cup CarRequests :
    InitWith({[r \in Reqs |-> IF r = "r1" THEN q ELSE NoRequest]})

(***************************************************************************)
(* Replies of the collaborators                                            *)
(***************************************************************************)
AcceptText ==
  <<P("{"), StrTok("success"), P(":"), Ws, Lit("true"), P(","), Ws,
    StrTok("acceptabilityScore"), P(":"), Ws, NumTok(85), P(","), Ws,
    StrTok("info"), P(":"), Ws, StrTok("Post valide"), P("}")>>
AcceptEmptyInfoText ==
  <<P("{"), StrTok("success"), P(":"), Ws, Lit("true"), P(","), Ws,
    StrTok("info"), P(":"), Ws, StrTok(""), P("}")>>
AcceptNoInfoText ==
  <<P("{"), StrTok("success"), P(":"), Ws, Lit("true"), P(","), Ws,
    StrTok("acceptabilityScore"), P(":"), Ws, NumTok(85), P("}")>>
RejectText ==
  <<P("{"), StrTok("success"), P(":"), Ws, Lit("false"), P(","), Ws,
    StrTok("acceptabilityScore"), P(":"), Ws, NumTok(50), P(","), Ws,
    StrTok("errors"), P(":"), Ws, P("["), StrTok("Marque inconnue"), P("]"),
    P("}")>>
FlagText(b) ==
  <<P("{"), StrTok("success"), P(":"), Ws, Lit(b), P("}")>>
Wrapped(text) ==
  <<Word("Voici"), Ws, Word("la"), Ws, Word("réponse:"), Ws>> \o text \o
  <<Ws, Word("avec"), Ws, Word("du"), Ws, Word("texte"), Ws, Word("après")>>
BraceWrapped(text) ==
  <<Word("Format"), Ws, P("{"), Word("json"), P("}"), P(":"), Ws>> \o text
NestedText ==
  <<P("{"), StrTok("success"), P(":"), Ws, Lit("true"), P(","), Ws,
    StrTok("details"), P(":"), Ws, P("{"), StrTok("score"), P(":"), Ws,
    NumTok(85), P("}"), P("}")>>
TwoObjectsText ==
  FlagText("true") \o <<Ws, Word("ou"), Ws>> \o FlagText("false")
KeywordText == <<Word("Success"), P(":"), Ws, Word("true")>>
\* replies without braces that name both outcomes, or only the negative one
BothKeywordsText ==
  <<Word("success"), Ws, Word("false"), Ws, Word("not"), Ws, Word("true")>>
RefusalText == <<Word("Success"), P(":"), Ws, Word("false")>>
SubstringText == <<Word("success"), Ws, Word("false"), Ws, Word("untrue")>>
ProseText == <<Word("Aucun"), Ws, Word("JSON"), Ws, Word("ici")>>
BrokenText == <<P("{"), Word("success"), Ws, Word("true"), P("}")>>

\* gptResponse.choices[0].message.content
Replies ==
  { Str(AcceptText), Str(AcceptNoInfoText), Str(AcceptEmptyInfoText),
    Str(RejectText),
    Str(FlagText("true")), Str(FlagText("false")),
    Str(Wrapped(AcceptNoInfoText)), Str(Wrapped(RejectText)),
    Str(BraceWrapped(AcceptNoInfoText)),
    Str(NestedText), Str(Wrapped(NestedText)), Str(TwoObjectsText),
    Str(KeywordText), Str(BothKeywordsText), Str(RefusalText),
    Str(SubstringText),
    Str(ProseText), Str(BrokenText), Str(<<NumTok(85)>>), Null }

\* await bddResponse.json()
BddBodies ==
  { Obj(<<Member("id", Num(1)), Member("brand", S("Toyota"))>>),
    Obj(<<Member("error", S("Database error"))>>) }

\* result.secure_url of the upload of file i of request r
SecureUrl(r, i) == Str(<<Word("https://res.cloudinary.com/posts/"), Word(r), NumTok(i)>>)

(***************************************************************************)
(* validatePost                                                            *)
(***************************************************************************)
Images(r) == req[r].files
NumImages(r) == Len(Images(r).paths)
Tags(r) == ParseTags(Get(req[r].body, "tags"))

\* the sets of files whose unlinkSync may throw: a missing file always does
FailSets(r) ==
  {f \in SUBSET (1..NumImages(r)) :
     \A i \in 1..NumImages(r) : <<r, i>> \notin fs => i \in f}

\* a finally block whose loop ends at the first unlinkSync that throws
RECURSIVE CleanupStopsAtFailure(_, _, _)
CleanupStopsAtFailure(i, n, failed) ==
  IF i > n THEN <<>>
  ELSE IF i \in failed THEN <<Ev("unlink", i), Ev("log.warn", i)>>
  ELSE <<Ev("unlink", i)>> \o CleanupStopsAtFailure(i + 1, n, failed)

\* lines 177-187: the finally block; failed = the files whose unlinkSync
\* throws, each caught and logged on its own
RECURSIVE Cleanup(_, _, _)
Cleanup(i, n, failed) ==
  IF i > n THEN <<>>
  ELSE <<Ev("unlink", i)>> \o
       (IF i \in failed THEN <<Ev("log.warn", i)>> ELSE <<>>) \o
       Cleanup(i + 1, n, failed)

\* a cleanup that removes the files of every request in progress
RemovedOfAll(r, n, failed) == {f \in fs : f[2] \in 1..n /\ f[2] \notin failed}

\* the files a run of the finally block removed
Removed(r, n, failed) ==
  {<<r, i>> : i \in {j \in 1..n : \E k \in 1..Len(Cleanup(1, n, failed)) :
                        /\ Cleanup(1, n, failed)[k] = Ev("unlink", j)
                        /\ j \notin failed}}

\* a return whose cleanup runs before the response is issued
ReturnAfterCleanup(r, before, status, body, failed) ==
  /\ trace' = [trace EXCEPT ![r] =
       @ \o before \o Cleanup(1, NumImages(r), failed) \o <<Ev("respond", 0)>>]
  /\ responses' = [responses EXCEPT ![r] = Append(@, Response(status, body))]
  /\ fs' = fs \ Removed(r, NumImages(r), failed)
  /\ pc' = [pc EXCEPT ![r] = "done"]

\* a return inside the try block: the response, then the finally block
Return(r, before, status, body, failed) ==
  /\ trace' = [trace EXCEPT ![r] =
       @ \o before \o <<Ev("respond", 0)>> \o Cleanup(1, NumImages(r), failed)]
  /\ responses' = [responses EXCEPT ![r] = Append(@, Response(status, body))]
  /\ fs' = fs \ Removed(r, NumImages(r), failed)
  /\ pc' = [pc EXCEPT ![r] = "done"]

\* the catch payload without the message of the error
ServerErrorNoMessage(msg) ==
  Obj(<<Member("success", Bool(FALSE)), Member("error", S("Erreur serveur"))>>)

\* lines 170-176: the catch block
ServerError(msg) ==
  Obj(<<Member("success", Bool(FALSE)), Member("error", S("Erreur serveur")),
        Member("message", S(msg))>>)

Catch(r, before, msg, failed) ==
  Return(r, before \o <<Ev("log.error", 0)>>, 500, ServerError(msg), failed)

BadRequest ==
  Obj(<<Member("success", Bool(FALSE)),
        Member("error", S("Champs requis manquants ou images non fournies."))>>)

\* a map that starts the upload of every file a second time
StartUploadsTwice(n) == [i \in 1..(2 * n) |-> Ev("upload", ((i - 1) % n) + 1)]

\* lines 38-45: map starts the upload of every file, in order
StartUploads(n) == [i \in 1..n |-> Ev("upload", i)]
InFlight(r, n) == [i \in 1..n |-> [state |-> "inflight", url |-> Undefined, err |-> ""]]

\* lines 9-52, up to the await of Promise.all
ValidatePostStart(r) ==
  /\ pc[r] = "idle"
  /\ req[r].handler = "validatePost"
  /\ IF PropThrows(req[r].body)
     THEN \* line 10: destructuring an absent body throws outside the try
          /\ pc' = [pc EXCEPT ![r] = "rejected"]
          /\ UNCHANGED <<task, trace, responses, fs>>
     ELSE IF MissingFields(req[r].body, Tags(r), Images(r))
     THEN /\ pc' = [pc EXCEPT ![r] = "done"]
          /\ trace' = [trace EXCEPT ![r] = Append(@, Ev("respond", 0))]
          /\ responses' = [responses EXCEPT ![r] =
               Append(@, Response(400, BadRequest))]
          /\ UNCHANGED <<task, fs>>
     ELSE /\ pc' = [pc EXCEPT ![r] = "awaitUploads"]
          /\ task' = [task EXCEPT ![r] = InFlight(r, NumImages(r))]
          /\ trace' = [trace EXCEPT ![r] = @ \o StartUploads(NumImages(r))]
          /\ UNCHANGED <<responses, fs>>
  /\ UNCHANGED <<req, reply, parsed, bddResponse, bddResult, sent, messages>>

\* a document that lists the urls in the order the uploads completed
PostDocumentByCompletion(r) ==
  LET reads == SelectSeq(trace[r], LAMBDA e : e.op = "read") IN
  Obj(<<Member("brand", Get(req[r].body, "brand")),
        Member("model", Get(req[r].body, "model")),
        Member("description", Get(req[r].body, "description")),
        Member("tags", Tags(r)),
        Member("images",
               Arr([k \in 1..NumImages(r) |-> task[r][reads[k].file].url]))>>)

\* lines 144-150: the document posted to the persistence service
PostDocument(r) ==
  Obj(<<Member("brand", Get(req[r].body, "brand")),
        Member("model", Get(req[r].body, "model")),
        Member("description", Get(req[r].body, "description")),
        Member("tags", Tags(r)),
        Member("images", Arr([i \in 1..NumImages(r) |-> task[r][i].url]))>>)

Resolved(url) == [state |-> "resolved", url |-> url, err |-> ""]
Rejected(msg) == [state |-> "rejected", url |-> Undefined, err |-> msg]

\* lines 54-108: the form written into the prompt and the images attached
PostMessages(r) ==
  [form |-> [brand |-> Get(req[r].body, "brand"),
             model |-> Get(req[r].body, "model"),
             description |-> Get(req[r].body, "description"),
             tags |-> JSONStringify(Tags(r))],
   images |-> [i \in 1..NumImages(r) |-> i]]

\* an upload task that resolves without a url when its upload fails
UploadTaskSwallowsFailure(r, i, outcome) ==
  IF outcome = "uploadFails" THEN Resolved(Undefined)
  ELSE IF outcome = "readFails" \/ <<r, i>> \notin fs THEN Rejected(ReadError)
  ELSE Resolved(SecureUrl(r, i))

\* lines 39-51: the task of file i after its upload settled; the file is
\* read once the upload succeeded
UploadTask(r, i, outcome) ==
  IF outcome = "uploadFails" THEN Rejected(UploadError)
  ELSE IF outcome = "readFails" \/ <<r, i>> \notin fs THEN Rejected(ReadError)
  ELSE Resolved(SecureUrl(r, i))

\* what the settling of upload i adds to the trace
UploadEvents(i, outcome, t) ==
  IF outcome = "uploadFails" THEN <<Ev("upload.throws", i)>>
  ELSE <<Ev("read", i)>> \o
       (IF t.state = "rejected" THEN <<Ev("read.throws", i)>> ELSE <<>>)

\* lines 38-115: one upload settles.  Promise.all rejects with the first
\* rejection and resolves when every task resolved; the handler then runs
\* on to the completion call.  A task that settles after the handler left
\* the await only finishes on its own.
UploadSettle(r, i) ==
  /\ req[r].handler = "validatePost"
  /\ i \in 1..Len(task[r])
  /\ task[r][i].state = "inflight"
  /\ \E outcome \in {"ok", "uploadFails", "readFails"}, failed \in FailSets(r) :
       LET t == UploadTask(r, i, outcome)
           tasks == [task[r] EXCEPT ![i] = t]
       IN
       /\ task' = [task EXCEPT ![r] = tasks]
       /\ IF pc[r] # "awaitUploads"
          THEN /\ trace' = [trace EXCEPT ![r] = @ \o UploadEvents(i, outcome, t)]
               /\ UNCHANGED <<pc, responses, fs>>
          ELSE IF t.state = "rejected"
          THEN Catch(r, UploadEvents(i, outcome, t), t.err, failed)
          ELSE IF \A j \in 1..Len(tasks) : tasks[j].state = "resolved"
          THEN /\ trace' = [trace EXCEPT ![r] = @ \o UploadEvents(i, outcome, t)
                               \o <<Ev("log.info", 0), Ev("completion", 0)>>]
               /\ pc' = [pc EXCEPT ![r] = "awaitGPT"]
               /\ UNCHANGED <<responses, fs>>
          ELSE /\ trace' = [trace EXCEPT ![r] = @ \o UploadEvents(i, outcome, t)]
               /\ UNCHANGED <<pc, responses, fs>>
  /\ messages' = IF pc[r] = "awaitUploads" /\ pc'[r] = "awaitGPT"
                 THEN [messages EXCEPT ![r] = PostMessages(r)]
                 ELSE messages
  /\ UNCHANGED <<req, reply, parsed, bddResponse, bddResult, sent>>

\* a negative verdict answered from the catch block
RejectionAsServerError(p) == Response(500, ServerError(TypeError))

\* lines 131-133: the answer to a negative verdict is the verdict itself
Rejection(p) == Response(400, p)

\* a routing that posts the document whatever the verdict says
ValidatePostReplyIgnoresVerdict(r) ==
  /\ pc[r] = "awaitGPT"
  /\ req[r].handler = "validatePost"
  /\ \E failed \in FailSets(r) :
       \/ /\ Catch(r, <<Ev("completion.throws", 0)>>, GptError, failed)
          /\ UNCHANGED <<reply, parsed, sent>>
       \/ \E content \in Replies :
            LET x == ExtractPost(content) IN
            /\ reply' = [reply EXCEPT ![r] = content]
            /\ parsed' = IF x.ok THEN [parsed EXCEPT ![r] = x.val] ELSE parsed
            /\ IF ~x.ok
               THEN /\ Catch(r, <<>>, x.err, failed)
                    /\ UNCHANGED sent
               ELSE IF PropThrows(x.val)
               THEN /\ Catch(r, <<>>, TypeError, failed)
                    /\ UNCHANGED sent
               ELSE /\ sent' = [sent EXCEPT ![r] =
                         [given |-> TRUE, doc |-> PostDocument(r),
                          authorization |-> req[r].authorization]]
                    /\ trace' = [trace EXCEPT ![r] =
                         @ \o <<Ev("log.info", 0), Ev("fetch", 0)>>]
                    /\ pc' = [pc EXCEPT ![r] = "awaitFetch"]
                    /\ UNCHANGED <<responses, fs>>
  /\ UNCHANGED <<req, task, bddResponse, bddResult, messages>>

\* lines 111-152: the completion call settles; the reply is extracted and
\* routed
ValidatePostReply(r) ==
  /\ pc[r] = "awaitGPT"
  /\ req[r].handler = "validatePost"
  /\ \E failed \in FailSets(r) :
       \/ /\ Catch(r, <<Ev("completion.throws", 0)>>, GptError, failed)
          /\ UNCHANGED <<reply, parsed, sent>>
       \/ \E content \in Replies :
            LET x == ExtractPost(content) IN
            /\ reply' = [reply EXCEPT ![r] = content]
            /\ parsed' = IF x.ok THEN [parsed EXCEPT ![r] = x.val] ELSE parsed
            /\ IF ~x.ok
               THEN /\ Catch(r, <<>>, x.err, failed)
                    /\ UNCHANGED sent
               ELSE IF PropThrows(x.val)
               THEN /\ Catch(r, <<>>, TypeError, failed)
                    /\ UNCHANGED sent
               ELSE IF ~Truthy(Get(x.val, "success"))
               THEN /\ Return(r, <<>>, Rejection(x.val).status,
                              Rejection(x.val).body, failed)
                    /\ UNCHANGED sent
               ELSE /\ sent' = [sent EXCEPT ![r] =
                         [given |-> TRUE, doc |-> PostDocument(r),
                          authorization |-> req[r].authorization]]
                    /\ trace' = [trace EXCEPT ![r] =
                         @ \o <<Ev("log.info", 0), Ev("fetch", 0)>>]
                    /\ pc' = [pc EXCEPT ![r] = "awaitFetch"]
                    /\ UNCHANGED <<responses, fs>>
  /\ UNCHANGED <<req, task, bddResponse, bddResult, messages>>

\* lines 136-154: fetch settles; the body is then read
FetchSettle(r) ==
  /\ pc[r] = "awaitFetch"
  /\ \E failed \in FailSets(r) :
       \/ /\ Catch(r, <<Ev("fetch.throws", 0)>>, FetchError, failed)
          /\ UNCHANGED bddResponse
       \/ \E ok \in BOOLEAN :
            /\ bddResponse' = [bddResponse EXCEPT ![r] = ok]
            /\ trace' = [trace EXCEPT ![r] = Append(@, Ev("json", 0))]
            /\ pc' = [pc EXCEPT ![r] = "awaitJson"]
            /\ UNCHANGED <<responses, fs>>
  /\ UNCHANGED <<req, task, reply, parsed, bddResult, sent, messages>>

\* the persistence failure payload without the body of the service
PersistenceFailedNoDetails(details) ==
  Obj(<<Member("success", Bool(FALSE)),
        Member("error", S("Validation réussie mais échec de l'enregistrement"))>>)

PersistenceFailed(details) ==
  Obj(<<Member("success", Bool(FALSE)),
        Member("error", S("Validation réussie mais échec de l'enregistrement")),
        Member("details", details)>>)

\* x || y
OrElse(x, y) == IF Truthy(x) THEN x ELSE y

\* the 201 payload without the default info
CreatedWithoutDefault(p, post) ==
  Obj(<<Member("success", Bool(TRUE)), Member("info", Get(p, "info")),
        Member("post", post)>>)

Created(p, post) ==
  Obj(<<Member("success", Bool(TRUE)),
        Member("info", OrElse(Get(p, "info"), S("Post validé et créé"))),
        Member("post", post)>>)

\* lines 154-169: the body of the persistence response is read
JsonSettle(r) ==
  /\ pc[r] = "awaitJson"
  /\ \E failed \in FailSets(r) :
       \/ /\ Catch(r, <<Ev("json.throws", 0)>>, BodyError, failed)
          /\ UNCHANGED bddResult
       \/ \E body \in BddBodies :
            /\ bddResult' = [bddResult EXCEPT ![r] = body]
            /\ IF ~bddResponse[r]
               THEN Return(r, <<Ev("log.error", 0)>>, 500,
                           PersistenceFailed(body), failed)
               ELSE Return(r, <<>>, 201, Created(parsed[r], body), failed)
  /\ UNCHANGED <<req, task, reply, parsed, bddResponse, sent, messages>>

(***************************************************************************)
(* validateData                                                            *)
(***************************************************************************)
\* text.replace(/<marker>\s*/g, ''): every marker token goes, with the
\* whitespace that follows it
RECURSIVE DropWs(_)
DropWs(toks) ==
  IF toks # <<>> /\ Head(toks).k = "ws" THEN DropWs(Tail(toks)) ELSE toks

RECURSIVE RemoveMarker(_, _)
RemoveMarker(toks, kind) ==
  IF toks = <<>> THEN toks
  ELSE IF Head(toks).k = kind THEN RemoveMarker(DropWs(Tail(toks)), kind)
  ELSE <<Head(toks)>> \o RemoveMarker(Tail(toks), kind)

\* lines 242-246
Clean(text) ==
  Trim(SelectSeq(RemoveMarker(RemoveMarker(text, "fencejson"), "fence"),
                 LAMBDA tk : tk.k # "tick"))

\* a narrow match that runs on to the last "}" of the text
NarrowMatchGreedy(toks) ==
  LET starts == {i \in Opens(toks) : \E j \in Closes(toks) : j > i} IN
  IF starts = {} THEN NoMatch
  ELSE Match(toks, Min(starts), Max(Closes(toks)))

\* cleaned.match(/\{[^}]*\}/): from the first "{" that has a "}" after it
\* to the first "}" after it
NarrowMatch(toks) ==
  LET starts == {i \in Opens(toks) : \E j \in Closes(toks) : j > i} IN
  IF starts = {} THEN NoMatch
  ELSE LET a == Min(starts) IN
       Match(toks, a, Min({j \in Closes(toks) : j > a}))

\* the keywords the lower-cased characters of a token contain
KeywordsOf(c) ==
  CASE c \in {"success", "Success", "SUCCESS"} -> {"success"}
    [] c \in {"true", "True", "TRUE", "untrue"} -> {"true"}
    [] c \in {"false", "False", "FALSE"} -> {"false"}
    [] c \in {"success:true", "Success=True"} -> {"success", "true"}
    [] c \in {"success:false", "Success=False"} -> {"success", "false"}
    [] OTHER -> {}

TokenKeywords(tk) ==
  CASE tk.k = "word" -> KeywordsOf(tk.w)
    [] tk.k = "str" -> KeywordsOf(tk.c)
    [] tk.k = "lit" -> KeywordsOf(tk.c)
    [] OTHER -> {}

\* cleaned.toLowerCase().includes(kw)
Includes(toks, kw) == \E i \in 1..Len(toks) : kw \in TokenKeywords(toks[i])

\* an extractor whose heuristic tests the negative keywords first
extractAndParseJSONFalseFirst(text) ==
  LET cleaned == Clean(text)
      d == JSONParse(cleaned)
  IN
  IF d.ok THEN Returned(d.val)
  ELSE LET m == NarrowMatch(cleaned) IN
    IF m.found
    THEN LET p == JSONParse(m.text) IN
         IF p.ok THEN Returned(p.val) ELSE Thrown(SyntaxError)
    ELSE IF Includes(cleaned, "success") /\ Includes(cleaned, "false")
    THEN Returned(Obj(<<Member("success", Bool(FALSE))>>))
    ELSE IF Includes(cleaned, "success") /\ Includes(cleaned, "true")
    THEN Returned(Obj(<<Member("success", Bool(TRUE))>>))
    ELSE Thrown("Aucun JSON valide trouvé")

\* lines 241-270
extractAndParseJSON(text) ==
  LET cleaned == Clean(text)
      d == JSONParse(cleaned)
  IN
  IF d.ok THEN Returned(d.val)
  ELSE LET m == NarrowMatch(cleaned) IN
    IF m.found
    THEN LET p == JSONParse(m.text) IN
         IF p.ok THEN Returned(p.val) ELSE Thrown(SyntaxError)
    ELSE IF Includes(cleaned, "success") /\ Includes(cleaned, "true")
    THEN Returned(Obj(<<Member("success", Bool(TRUE))>>))
    ELSE IF Includes(cleaned, "success") /\ Includes(cleaned, "false")
    THEN Returned(Obj(<<Member("success", Bool(FALSE))>>))
    ELSE Thrown("Aucun JSON valide trouvé")

\* a response of a handler that has no finally block
Respond(r, before, status, body) ==
  /\ trace' = [trace EXCEPT ![r] = @ \o before \o <<Ev("respond", 0)>>]
  /\ responses' = [responses EXCEPT ![r] = Append(@, Response(status, body))]
  /\ pc' = [pc EXCEPT ![r] = "done"]

NoData ==
  Obj(<<Member("success", Bool(FALSE)),
        Member("error", S("Aucune donnée fournie."))>>)
InvalidReply(msg) ==
  Obj(<<Member("success", Bool(FALSE)),
        Member("error", S("Erreur de validation - réponse GPT invalide")),
        Member("details", S(msg))>>)
Inappropriate ==
  Obj(<<Member("success", Bool(FALSE)),
        Member("error", S("Contenu inapproprié détecté"))>>)
Validated ==
  Obj(<<Member("success", Bool(TRUE)),
        Member("message", S("Données validées avec succès"))>>)

\* the verdict answered as validatePost answers it
DataVerdictAsClientError(p) ==
  IF ~Truthy(Get(p, "success"))
  THEN Response(400, Inappropriate)
  ELSE Response(200, Validated)

\* lines 284-294: the answer to an extracted verdict
DataVerdict(p) ==
  IF ~Truthy(Get(p, "success"))
  THEN Response(200, Inappropriate)
  ELSE Response(200, Validated)

\* lines 199-227: the body written into the prompt
DataMessages(r) ==
  [form |-> JSONStringify(req[r].body), images |-> <<>>]

\* lines 190-234, up to the await of the completion call
ValidateDataStart(r) ==
  /\ pc[r] = "idle"
  /\ req[r].handler = "validateData"
  /\ IF ~Truthy(req[r].body)
     THEN Respond(r, <<>>, 400, NoData)
     ELSE /\ trace' = [trace EXCEPT ![r] =
               @ \o <<Ev("log.info", 0), Ev("completion", 0)>>]
          /\ pc' = [pc EXCEPT ![r] = "awaitGPT"]
          /\ UNCHANGED responses
  /\ messages' = IF pc'[r] = "awaitGPT"
                 THEN [messages EXCEPT ![r] = DataMessages(r)]
                 ELSE messages
  /\ UNCHANGED <<req, task, reply, parsed, bddResponse, bddResult, sent, fs>>

\* lines 229-302: the completion call settles
ValidateDataReply(r) ==
  /\ pc[r] = "awaitGPT"
  /\ req[r].handler = "validateData"
  /\ \/ /\ Respond(r, <<Ev("completion.throws", 0), Ev("log.error", 0)>>,
                   500, ServerError(GptError))
        /\ UNCHANGED <<reply, parsed>>
     \/ \E content \in Replies :
          /\ reply' = [reply EXCEPT ![r] = content]
          /\ IF PropThrows(content)
             THEN \* line 236: content.trim() on a null content
                  /\ Respond(r, <<Ev("log.error", 0)>>, 500,
                             ServerError(TypeError))
                  /\ UNCHANGED parsed
             ELSE LET x == extractAndParseJSON(Trim(content.s)) IN
               /\ parsed' = IF x.ok THEN [parsed EXCEPT ![r] = x.val]
                            ELSE parsed
               /\ IF ~x.ok
                  THEN Respond(r, <<Ev("log.error", 0), Ev("log.error", 0)>>,
                               500, InvalidReply(x.err))
                  ELSE IF PropThrows(x.val)
                  THEN Respond(r, <<Ev("log.error", 0)>>, 500,
                               ServerError(TypeError))
                  ELSE Respond(r, <<>>, DataVerdict(x.val).status,
                               DataVerdict(x.val).body)
  /\ UNCHANGED <<req, task, bddResponse, bddResult, sent, messages, fs>>

(***************************************************************************)
(* identifyCar                                                             *)
(***************************************************************************)
NoImage ==
  Obj(<<Member("success", Bool(FALSE)),
        Member("error", S("Aucune image n'a été fournie."))>>)
CarError(msg) ==
  Obj(<<Member("success", Bool(FALSE)),
        Member("error", S("Erreur serveur ou image non traitable.")),
        Member("message", S(msg))>>)
RawResponse(error, result) ==
  Obj(<<Member("success", Bool(FALSE)), Member("error", S(error)),
        Member("rawResponse", result)>>)

\* a deletion that is attempted a second time
UnlinkTwice(fails, logged) ==
  <<Ev("unlink", 1), Ev("unlink", 1)>> \o
  (IF fails THEN <<Ev("log.warn", 1)>> ELSE logged)

\* lines 76-81 and 91-97: the one unlinkSync of the uploaded file, its
\* failure caught and logged
Unlink(fails, logged) ==
  <<Ev("unlink", 1)>> \o
  (IF fails THEN <<Ev("log.warn", 1)>> ELSE logged)

\* lines 48-74: the response to a reply
CarResult(result) ==
  LET d == JSONParse(IF result.t = "null" THEN <<Lit("null")>> ELSE result.s)
  IN
  IF d.ok THEN [logs |-> <<>>, response |-> Response(200, d.val)]
  ELSE LET m == GreedyMatch(result.s) IN
    IF m.found
    THEN LET p == JSONParse(m.text) IN
         IF p.ok
         THEN [logs |-> <<Ev("log.error", 0)>>,
               response |-> Response(200, p.val)]
         ELSE [logs |-> <<Ev("log.error", 0), Ev("log.error", 0)>>,
               response |->
                 Response(500, RawResponse("Format de réponse invalide de l'API",
                                           result))]
    ELSE [logs |-> <<Ev("log.error", 0)>>,
          response |->
            Response(500, RawResponse("Format de réponse inattendu", result))]

\* the test of line 10 without its !req.file.path operand
NoUploadPathUnchecked(file) == ~file.given

\* line 10: no file, or a file without a path
NoUpload(file) == ~file.given \/ file.path = 0

\* lines 22-41: the fixed prompt and the image read from the upload
CarMessages(r) == [form |-> Undefined, images |-> <<req[r].file.path>>]

\* lines 8-43, up to the await of the completion call
IdentifyCarStart(r) ==
  /\ pc[r] = "idle"
  /\ req[r].handler = "identifyCar"
  /\ IF NoUpload(req[r].file)
     THEN /\ Respond(r, <<>>, 400, NoImage)
          /\ UNCHANGED fs
     ELSE \E readFails \in BOOLEAN, fails \in BOOLEAN :
            /\ <<r, 1>> \notin fs => readFails /\ fails
            /\ IF readFails
               THEN /\ trace' = [trace EXCEPT ![r] =
                         @ \o <<Ev("read", 1), Ev("read.throws", 1),
                                Ev("log.error", 0), Ev("respond", 0)>> \o Unlink(fails, <<>>)]
                    /\ responses' = [responses EXCEPT ![r] =
                         Append(@, Response(500, CarError(ReadError)))]
                    /\ pc' = [pc EXCEPT ![r] = "done"]
                    /\ fs' = IF fails THEN fs ELSE fs \ {<<r, 1>>}
               ELSE /\ trace' = [trace EXCEPT ![r] =
                         @ \o <<Ev("read", 1), Ev("log.info", 0),
                                Ev("completion", 0)>>]
                    /\ pc' = [pc EXCEPT ![r] = "awaitGPT"]
                    /\ UNCHANGED <<responses, fs>>
  /\ messages' = IF pc'[r] = "awaitGPT"
                 THEN [messages EXCEPT ![r] = CarMessages(r)]
                 ELSE messages
  /\ UNCHANGED <<req, task, reply, parsed, bddResponse, bddResult, sent>>

\* lines 20-97: the completion call settles
IdentifyCarReply(r) ==
  /\ pc[r] = "awaitGPT"
  /\ req[r].handler = "identifyCar"
  /\ \E fails \in BOOLEAN :
       /\ <<r, 1>> \notin fs => fails
       /\ \/ /\ trace' = [trace EXCEPT ![r] =
                    @ \o <<Ev("completion.throws", 0), Ev("log.error", 0),
                           Ev("respond", 0)>> \o Unlink(fails, <<>>)]
             /\ responses' = [responses EXCEPT ![r] =
                    Append(@, Response(500, CarError(GptError)))]
             /\ UNCHANGED <<reply, parsed>>
          \/ \E content \in Replies :
               LET c == CarResult(content) IN
               /\ reply' = [reply EXCEPT ![r] = content]
               /\ parsed' = IF c.response.status = 200
                            THEN [parsed EXCEPT ![r] = c.response.body]
                            ELSE parsed
               /\ trace' = [trace EXCEPT ![r] =
                    @ \o <<Ev("log.info", 0)>> \o c.logs \o <<Ev("respond", 0)>>
                      \o Unlink(fails, <<Ev("log.info", 1)>>)]
               /\ responses' = [responses EXCEPT ![r] = Append(@, c.response)]
       /\ pc' = [pc EXCEPT ![r] = "done"]
       /\ fs' = IF fails THEN fs ELSE fs \ {<<r, 1>>}
  /\ UNCHANGED <<req, task, bddResponse, bddResult, sent, messages>>

(***************************************************************************)
(* Specification                                                           *)
(***************************************************************************)
Next ==
  \E r \in Reqs :
    \/ ValidatePostStart(r)
    \/ \E i \in 1..MaxFiles : UploadSettle(r, i)
    \/ ValidatePostReply(r)
    \/ FetchSettle(r)
    \/ JsonSettle(r)
    \/ ValidateDataStart(r)
    \/ ValidateDataReply(r)
    \/ IdentifyCarStart(r)
    \/ IdentifyCarReply(r)

Spec == Init /\ [][Next]_vars

\* two requests in progress at once, each to any of the three handlers
ConcurrentRequests ==
  { Request("validatePost",
            ObjOf(<<Member("brand", S("Toyota")), Member("model", S("Corolla")),
                    Member("description", S("Voiture en excellent état")),
                    Member("tags", Arr(<<S("berline"), S("fiable")>>))>>),
            Files(1), NoFile),
    Request("validateData", Obj(<<Member("username", S("testuser"))>>),
            NoFiles, NoFile),
    Request("identifyCar", Undefined, NoFiles, [given |-> TRUE, path |-> 1]) }

InitConcurrent ==
  \E q1 \in ConcurrentRequests, q2 \in ConcurrentRequests :
    InitWith({[r \in Reqs |-> IF r = "r1" THEN q1 ELSE q2]})

SpecConcurrent == InitConcurrent /\ [][Next]_vars

\* every awaited external call returns or fails and the handler that waits
\* for it runs on: a step that can be taken is taken in the end
ExternalCallsSettle == WF_vars(Next)

SpecFair == Init /\ [][Next]_vars /\ ExternalCallsSettle

(***************************************************************************)
(* Properties                                                              *)
(***************************************************************************)
\* the positions of the trace of r that hold a call op (on file i)
Calls(r, op) == {k \in 1..Len(trace[r]) : trace[r][k].op = op}
FileCalls(r, op, i) == {k \in Calls(r, op) : trace[r][k].file = i}
ExternalCalls(r) ==
  Calls(r, "upload") \cup Calls(r, "completion") \cup Calls(r, "fetch")
IsPost(r) == req[r].handler = "validatePost"
IsData(r) == req[r].handler = "validateData"
IsCar(r) == req[r].handler = "identifyCar"
Started(r) == pc[r] \notin {"unused", "idle"}
HasBody(r) == req[r].body.t = "obj"

\* a required field of the request is missing, null or falsy when the
\* handler tests it, or no file is attached
FieldMissing(r) ==
  \/ \E f \in {"brand", "model", "description"} :
       Get(req[r].body, f) \in {Undefined, Null, Str(<<>>)}
  \/ Tags(r) \in {Undefined, Null, Str(<<>>), Bool(FALSE), Num(0)}
  \/ ~req[r].files.given
  \/ req[r].files.paths = <<>>

\* C1: a validatePost request with a missing, null or falsy required field,
\* or with no attached file, is answered 400 with the fixed payload and makes
\* no upload, completion or persistence call
C1_MissingFieldRejected ==
  \A r \in Reqs :
    (IsPost(r) /\ Started(r) /\ HasBody(r) /\ FieldMissing(r)) =>
      /\ pc[r] = "done"
      /\ responses[r] =
           <<Response(400,
               Obj(<<Member("success", Bool(FALSE)),
                     Member("error",
                       S("Champs requis manquants ou images non fournies."))>>))>>
      /\ ExternalCalls(r) = {}

C1_Witness ==
  \E r \in Reqs :
    /\ IsPost(r) /\ Started(r) /\ HasBody(r)
    /\ Get(req[r].body, "brand") = S("Toyota")
    /\ Get(req[r].body, "model") = S("Corolla")
    /\ Get(req[r].body, "description") # Null
    /\ Get(req[r].body, "tags") = Str(<<Lit("null")>>)
    /\ Len(req[r].files.paths) = 2
    /\ Len(responses[r]) = 1

\* C2: when validatePost has finished, the deletion of every attached file
\* has been attempted exactly once, on every exit path
C2_EveryFileUnlinkedOnce ==
  \A r \in Reqs :
    (IsPost(r) /\ pc[r] = "done") =>
      \A i \in 1..NumImages(r) : Cardinality(FileCalls(r, "unlink", i)) = 1


\* the exceptions recorded in the trace of r, and their messages
ThrowOps ==
  {"upload.throws", "read.throws", "completion.throws", "fetch.throws",
   "json.throws"}
Throws(r) == {k \in 1..Len(trace[r]) : trace[r][k].op \in ThrowOps}
MessageOf(op) ==
  CASE op = "upload.throws" -> "Cloudinary upload failed"
    [] op = "read.throws" -> "ENOENT: no such file or directory"
    [] op = "completion.throws" -> "GPT API Error"
    [] op = "fetch.throws" -> "fetch failed"
    [] op = "json.throws" -> "Unexpected end of JSON input"
ServerErrorPayload(msg) ==
  Obj(<<Member("success", Bool(FALSE)), Member("error", S("Erreur serveur")),
        Member("message", S(msg))>>)
AllUnlinkAttempted(r) ==
  \A i \in 1..NumImages(r) : FileCalls(r, "unlink", i) # {}
Replied(r) == reply[r].t = "str"

\* C3: when an upload, the file read, the completion call, the extraction,
\* the persistence call or the reading of its body throws, validatePost
\* answers 500 with the message of the error thrown, logs an error and still
\* attempts the deletion of every attached file
C3_ThrowAnswered500 ==
  \A r \in Reqs :
    IsPost(r) =>
      /\ Throws(r) # {} =>
           /\ responses[r] =
                <<Response(500,
                    ServerErrorPayload(MessageOf(trace[r][Min(Throws(r))].op)))>>
           /\ Calls(r, "log.error") # {}
           /\ AllUnlinkAttempted(r)
      /\ (Replied(r) /\ ~ExtractPost(reply[r]).ok) =>
           /\ responses[r] =
                <<Response(500, ServerErrorPayload(ExtractPost(reply[r]).err))>>
           /\ ExtractPost(reply[r]).err \in
                {"Réponse GPT invalide", "Unexpected token in JSON"}
           /\ Calls(r, "log.error") # {}
           /\ AllUnlinkAttempted(r)

C3_Witness ==
  \E r \in Reqs :
    /\ IsPost(r) /\ NumImages(r) = 2
    /\ Calls(r, "json.throws") # {}
    /\ Len(responses[r]) = 1

\* C4: in the cleanup of validatePost a deletion that fails is logged as a
\* warning for that file alone; deletion is still attempted for every other
\* file and the one response already sent stays as it is
C4_UnlinkFailureContained ==
  \A r \in Reqs :
    (IsPost(r) /\ pc[r] = "done" /\ Calls(r, "upload") # {}) =>
      /\ Len(responses[r]) = 1
      /\ Cardinality(Calls(r, "respond")) = 1
      /\ \A i \in 1..NumImages(r) :
           /\ Cardinality(FileCalls(r, "unlink", i)) = 1
           /\ Cardinality(FileCalls(r, "log.warn", i)) <= 1
           /\ <<r, i>> \in fs <=> FileCalls(r, "log.warn", i) # {}
           /\ \A k \in FileCalls(r, "unlink", i) :
                \A m \in Calls(r, "respond") : m < k

C4_Witness ==
  \E r \in Reqs :
    /\ IsPost(r) /\ pc[r] = "done" /\ NumImages(r) = 2
    /\ responses[r][1].status = 201
    /\ \A i \in 1..2 : <<r, i>> \in fs /\ FileCalls(r, "log.warn", i) # {}

\* the model accepted the submission of r: the reply extracts to an object
\* whose success is true
PostVerdict(r) == ExtractPost(reply[r])
Accepted(r) ==
  /\ Replied(r) /\ PostVerdict(r).ok
  /\ PostVerdict(r).val.t = "obj"
  /\ Get(PostVerdict(r).val, "success") = Bool(TRUE)
InfoOrDefault(p, default) ==
  IF Get(p, "info") \in {Undefined, Null, Str(<<>>)}
  THEN S(default) ELSE Get(p, "info")
FilesDeleted(r) ==
  \A i \in 1..NumImages(r) :
    /\ Cardinality(FileCalls(r, "unlink", i)) = 1
    /\ FileCalls(r, "log.warn", i) = {} => <<r, i>> \notin fs

\* C5: validation passed, every upload succeeded, the model accepted and the
\* persistence service answered ok: the response is 201 with success true,
\* the model's info (or the default) and the body of the service, and every
\* attached file is deleted
C5_CreatedAnswered201 ==
  \A r \in Reqs :
    (IsPost(r) /\ pc[r] = "done" /\ Accepted(r) /\ Throws(r) = {}
       /\ bddResponse[r] /\ bddResult[r] # Undefined) =>
      /\ responses[r] =
           <<Response(201,
               Obj(<<Member("success", Bool(TRUE)),
                     Member("info", InfoOrDefault(PostVerdict(r).val,
                                                  "Post validé et créé")),
                     Member("post", bddResult[r])>>))>>
      /\ FilesDeleted(r)

C5_Witness ==
  \E r \in Reqs :
    /\ IsPost(r) /\ pc[r] = "done" /\ NumImages(r) = 2
    /\ reply[r] = Str(AcceptEmptyInfoText)
    /\ bddResponse[r] /\ bddResult[r] # Undefined
    /\ fs = {}

\* C6: the model accepted but the persistence service answered non-ok: the
\* response is 500 with the persistence-failure payload carrying the body of
\* the service, and every attached file is still deleted
C6_PersistenceFailureAnswered500 ==
  \A r \in Reqs :
    (IsPost(r) /\ pc[r] = "done" /\ Accepted(r) /\ Throws(r) = {}
       /\ ~bddResponse[r] /\ bddResult[r] # Undefined) =>
      /\ responses[r] =
           <<Response(500,
               Obj(<<Member("success", Bool(FALSE)),
                     Member("error",
                       S("Validation réussie mais échec de l'enregistrement")),
                     Member("details", bddResult[r])>>))>>
      /\ FilesDeleted(r)

C6_Witness ==
  \E r \in Reqs :
    /\ IsPost(r) /\ pc[r] = "done" /\ NumImages(r) = 2
    /\ Accepted(r) /\ ~bddResponse[r]
    /\ bddResult[r] = Obj(<<Member("error", S("Database error"))>>)
    /\ fs = {}

\* C7: a reply that extracts to an object whose success is false is answered
\* 400 with that object, unchanged, as the response body
C7_RejectionEchoed400 ==
  \A r \in Reqs :
    (IsPost(r) /\ Replied(r) /\ PostVerdict(r).ok
       /\ PostVerdict(r).val.t = "obj"
       /\ Get(PostVerdict(r).val, "success") = Bool(FALSE)) =>
      /\ responses[r] = <<Response(400, PostVerdict(r).val)>>
      /\ reply[r] \in {Str(RejectText), Str(Wrapped(RejectText))} =>
           responses[r][1].body =
             Obj(<<Member("success", Bool(FALSE)),
                   Member("acceptabilityScore", Num(50)),
                   Member("errors", Arr(<<S("Marque inconnue")>>))>>)

C7_Witness ==
  \E r \in Reqs :
    /\ IsPost(r) /\ pc[r] = "done"
    /\ reply[r] = Str(Wrapped(RejectText))
    /\ Len(responses[r]) = 1

\* the verdict validateData extracted from the reply of r
DataResult(r) == extractAndParseJSON(Trim(reply[r].s))
DataVerdictIs(r, b) ==
  /\ IsData(r) /\ Replied(r) /\ DataResult(r).ok
  /\ DataResult(r).val.t = "obj"
  /\ Get(DataResult(r).val, "success") = Bool(b)

\* C8: validateData answers a negative verdict with status 200 and a body
\* whose success is false, and a positive verdict with status 200 and a body
\* whose success is true
C8_DataVerdictAnswered200 ==
  \A r \in Reqs : \A b \in BOOLEAN :
    DataVerdictIs(r, b) =>
      /\ Len(responses[r]) = 1
      /\ responses[r][1].status = 200
      /\ Get(responses[r][1].body, "success") = Bool(b)

C8_Witness ==
  \E r \in Reqs :
    /\ DataVerdictIs(r, FALSE)
    /\ reply[r] = Str(RejectText)
    /\ pc[r] = "done"

\* C9: validateData echoes the model's object: 200 with success true and the
\* model's info (or 'Données validées') on a positive verdict, 400 with the
\* model's object unchanged on a negative verdict
C9_DataVerdictEchoed ==
  \A r \in Reqs :
    /\ DataVerdictIs(r, TRUE) =>
         responses[r] =
           <<Response(200,
               Obj(<<Member("success", Bool(TRUE)),
                     Member("info", InfoOrDefault(DataResult(r).val,
                                                  "Données validées"))>>))>>
    /\ DataVerdictIs(r, FALSE) =>
         responses[r] = <<Response(400, DataResult(r).val)>>

\* C10: validateData with a null or undefined body answers 400 with the
\* no-data payload, identifyCar without a file (or with a file that has no
\* path) answers 400; neither makes a completion call, reads or deletes a file
C10_NoInputRejected ==
  \A r \in Reqs :
    Started(r) =>
      /\ (IsData(r) /\ req[r].body \in {Null, Undefined}) =>
           /\ responses[r] =
                <<Response(400,
                    Obj(<<Member("success", Bool(FALSE)),
                          Member("error", S("Aucune donnée fournie."))>>))>>
           /\ Calls(r, "completion") \cup Calls(r, "read")
                \cup Calls(r, "unlink") = {}
      /\ (IsCar(r) /\ (~req[r].file.given \/ req[r].file.path = 0)) =>
           /\ Len(responses[r]) = 1
           /\ responses[r][1].status = 400
           /\ Calls(r, "completion") \cup Calls(r, "read")
                \cup Calls(r, "unlink") = {}

C10_Witness ==
  \E r \in Reqs :
    /\ IsCar(r) /\ req[r].file.given /\ req[r].file.path = 0
    /\ pc[r] = "done"
    /\ Len(responses[r]) = 1

\* a JSON object is written somewhere in the text
HoldsObject(toks) ==
  \E i \in Opens(toks), j \in Closes(toks) :
    /\ i < j
    /\ JSONParse(SubSeq(toks, i, j)).ok
KeywordPair(toks) ==
  /\ Includes(toks, "success")
  /\ Includes(toks, "true") \/ Includes(toks, "false")
\* no JSON object can be recovered from the reply of the completion call
NoObject(r) ==
  /\ reply[r] # Undefined
  /\ reply[r].t = "str" =>
       /\ ~HoldsObject(reply[r].s)
       /\ IsData(r) => ~KeywordPair(Clean(Trim(reply[r].s)))

\* C11: a reply from which no JSON object can be recovered is answered 500
\* by validatePost, validateData and identifyCar; the completion call is made
\* once and validatePost makes no persistence call
C11_NoObjectAnswered500 ==
  \A r \in Reqs :
    NoObject(r) =>
      /\ Len(responses[r]) = 1
      /\ responses[r][1].status = 500
      /\ Cardinality(Calls(r, "completion")) = 1
      /\ Calls(r, "fetch") = {}

\* the cleaned reply of validateData yields no parseable JSON object
Cleaned(r) == Clean(Trim(reply[r].s))
NoParseableObject(r) ==
  /\ IsData(r) /\ Replied(r)
  /\ ~JSONParse(Cleaned(r)).ok
  /\ ~HoldsObject(Cleaned(r))

\* C12: in validateData, whenever the cleaned reply yields no parseable JSON
\* object (no braces, or a brace fragment that does not parse), the keyword
\* heuristic decides: 'success' and 'true' give {success:true}, 'success' and
\* 'false' give {success:false}, and extraction fails only without a pair
C12_KeywordFallbackAlwaysRuns ==
  \A r \in Reqs :
    NoParseableObject(r) =>
      /\ (Includes(Cleaned(r), "success") /\ Includes(Cleaned(r), "true")) =>
           /\ parsed[r] = Obj(<<Member("success", Bool(TRUE))>>)
           /\ responses[r] = <<Response(200, Validated)>>
      /\ (/\ Includes(Cleaned(r), "success")
          /\ Includes(Cleaned(r), "false")
          /\ ~Includes(Cleaned(r), "true")) =>
           /\ parsed[r] = Obj(<<Member("success", Bool(FALSE))>>)
           /\ responses[r] = <<Response(200, Inappropriate)>>
      /\ ~KeywordPair(Cleaned(r)) =>
           /\ parsed[r] = Undefined
           /\ Len(responses[r]) = 1
           /\ responses[r][1].status = 500

\* C13: in validatePost and identifyCar a reply with no parseable JSON
\* object ends in a 500, whether or not it contains the words success and
\* true; validatePost makes no persistence call and never answers 201 for it
C13_NoHeuristicOutsideValidateData ==
  \A r \in Reqs :
    ((IsPost(r) \/ IsCar(r)) /\ Replied(r) /\ ~HoldsObject(reply[r].s)) =>
      /\ Len(responses[r]) = 1
      /\ responses[r][1].status = 500
      /\ Calls(r, "fetch") = {}

\* the object texts a reply may hold, and what a flow extracts from a text
ObjectTexts == {AcceptNoInfoText, RejectText, NestedText}
Flat(text) == Closes(text) = {Len(text)}
FlowExtract(r, text) ==
  IF IsData(r) THEN extractAndParseJSON(Trim(text)) ELSE ExtractPost(Str(text))
ScoredAccept ==
  Obj(<<Member("success", Bool(TRUE)), Member("acceptabilityScore", Num(85))>>)
PersistedOk(r) ==
  pc[r] = "done" /\ Throws(r) = {} /\ bddResponse[r] /\ sent[r].given

\* C14 (as stated): in each flow an object text wrapped in arbitrary prose
\* extracts to the same object as the text alone; the reply 'Voici la
\* réponse: {"success": true, "acceptabilityScore": 85} avec du texte après'
\* extracts to that object and validatePost then answers 201
C14_WrappingNeverChangesResult ==
  \A r \in Reqs :
    /\ \A o \in ObjectTexts :
         reply[r] \in {Str(Wrapped(o)), Str(BraceWrapped(o))} =>
           /\ FlowExtract(r, o).ok
           /\ parsed[r] = FlowExtract(r, o).val
    /\ (IsPost(r) /\ reply[r] = Str(Wrapped(AcceptNoInfoText))) =>
         /\ parsed[r] = ScoredAccept
         /\ pc[r] # "done" => sent[r].given
         /\ PersistedOk(r) => responses[r][1].status = 201

\* C14 (amended): an object text wrapped in prose that holds no brace
\* extracts to the same object as the text alone, in validateData provided
\* the object text holds no closing brace before its last character; the
\* reply 'Voici la réponse: {"success": true, "acceptabilityScore": 85} avec
\* du texte après' extracts to that object and validatePost answers 201 once
\* the persistence service answered ok
C14_BraceFreeWrappingKeepsResult ==
  \A r \in Reqs :
    /\ \A o \in ObjectTexts :
         (reply[r] = Str(Wrapped(o)) /\ (IsData(r) => Flat(o))) =>
           /\ FlowExtract(r, o).ok
           /\ parsed[r] = FlowExtract(r, o).val
    /\ (IsPost(r) /\ reply[r] = Str(Wrapped(AcceptNoInfoText))) =>
         /\ parsed[r] = ScoredAccept
         /\ pc[r] # "done" => sent[r].given
         /\ PersistedOk(r) => responses[r][1].status = 201

C14_Witness ==
  \E r \in Reqs :
    /\ IsPost(r) /\ reply[r] = Str(Wrapped(AcceptNoInfoText))
    /\ parsed[r] = ScoredAccept
    /\ PersistedOk(r)
    /\ responses[r][1].status = 201

\* the text a flow parses as a reply: validateData cleans it first
ReplyText(r) == IF IsData(r) THEN Cleaned(r) ELSE reply[r].s
FirstOpen(text) == Min(Opens(text))
FirstCloseAfter(text, a) == Min({j \in Closes(text) : j > a})
LastClose(text) == Max(Closes(text))
\* the direct parse fails and a "{" of the text has a "}" after it
HasCandidate(r) ==
  /\ Replied(r)
  /\ ~JSONParse(ReplyText(r)).ok
  /\ Opens(ReplyText(r)) # {}
  /\ \E j \in Closes(ReplyText(r)) : j > FirstOpen(ReplyText(r))
\* the one candidate substring of the flow's strategy
Candidate(r) ==
  LET text == ReplyText(r)
      a == FirstOpen(text)
  IN SubSeq(text, a, IF IsData(r) THEN FirstCloseAfter(text, a)
                     ELSE LastClose(text))

\* C15: when the direct parse fails the one candidate is the text from the
\* first "{" to the first following "}" in validateData and to the last "}"
\* in validatePost and identifyCar; two flat objects separated by prose give
\* the first object in validateData and a 500 in validatePost and
\* identifyCar; a nested object wrapped in prose is extracted by validatePost
C15_CandidateByStrategy ==
  \A r \in Reqs :
    /\ HasCandidate(r) =>
         IF JSONParse(Candidate(r)).ok
         THEN parsed[r] = JSONParse(Candidate(r)).val
         ELSE /\ parsed[r] = Undefined
              /\ Len(responses[r]) = 1
              /\ responses[r][1].status = 500
    /\ reply[r] = Str(TwoObjectsText) =>
         /\ IsData(r) =>
              /\ parsed[r] = Obj(<<Member("success", Bool(TRUE))>>)
              /\ responses[r] = <<Response(200, Validated)>>
         /\ IsPost(r) =>
              /\ responses[r] =
                   <<Response(500, ServerErrorPayload("Unexpected token in JSON"))>>
              /\ Calls(r, "fetch") = {}
         /\ IsCar(r) =>
              /\ Len(responses[r]) = 1
              /\ responses[r][1].status = 500
    /\ (IsPost(r) /\ reply[r] = Str(Wrapped(NestedText))) =>
         /\ parsed[r] =
              Obj(<<Member("success", Bool(TRUE)),
                    Member("details", Obj(<<Member("score", Num(85))>>))>>)
         /\ sent[r].given

C15_Witness ==
  \E r \in Reqs :
    /\ IsData(r) /\ reply[r] = Str(TwoObjectsText)
    /\ parsed[r] = Obj(<<Member("success", Bool(TRUE))>>)
    /\ pc[r] = "done"

\* the tags of the request as given, and where the handler passes them on
TagsGiven(r) == Get(req[r].body, "tags")
TwoTags == Arr(<<S("berline"), S("fiable")>>)
SplitTrimmed(text) ==
  Arr([i \in 1..Len(Split(text)) |-> Str(Trim(Split(text)[i]))])
IsArrayText(text) == JSONParse(text).ok /\ JSONParse(text).val.t = "arr"
PassedOn(r, v) ==
  /\ messages[r] # NoMessages => messages[r].form.tags = JSONStringify(v)
  /\ sent[r].given => Get(sent[r].doc, "tags") = v
\* the tags are the only field that can fail the validation
OnlyTagsInDoubt(r) ==
  /\ IsPost(r) /\ HasBody(r) /\ Started(r)
  /\ Get(req[r].body, "brand") = S("Toyota")
  /\ Get(req[r].body, "model") = S("Corolla")
  /\ Get(req[r].body, "description") # Null
  /\ req[r].files.given /\ req[r].files.paths # <<>>

\* C16 (as stated): tag parsing never throws; a tags string that is a JSON
\* array gives the array, any other string is split on commas into trimmed
\* tokens in order, a list is left unchanged; the result is what is given to
\* the completion call and to the persistence call
C16_TagsParsedOrSplit ==
  \A r \in Reqs :
    (IsPost(r) /\ HasBody(r)) =>
      /\ pc[r] # "rejected"
      /\ TagsGiven(r).t = "arr" => PassedOn(r, TagsGiven(r))
      /\ TagsGiven(r).t = "str" =>
           IF IsArrayText(TagsGiven(r).s)
           THEN PassedOn(r, JSONParse(TagsGiven(r).s).val)
           ELSE /\ PassedOn(r, SplitTrimmed(TagsGiven(r).s))
                /\ OnlyTagsInDoubt(r) => Calls(r, "upload") # {}
      /\ TagsGiven(r) \in {TwoTags, Str(TagsJson), Str(TagsList)} =>
           /\ PassedOn(r, TwoTags)
           /\ messages[r] # NoMessages => messages[r].form.tags = TagsJson

\* C16 (amended): tag parsing never throws; a tags string that is valid JSON
\* gives the parsed value (the list for a JSON array, null for 'null', the
\* number for '2020'), a string that is not valid JSON is split on commas
\* into trimmed tokens in order, a list is left unchanged; the result is
\* what is validated, given to the completion call and to the persistence
\* call
C16_TagsParsedElseSplit ==
  \A r \in Reqs :
    (IsPost(r) /\ HasBody(r)) =>
      /\ pc[r] # "rejected"
      /\ TagsGiven(r).t = "arr" => PassedOn(r, TagsGiven(r))
      /\ TagsGiven(r).t = "str" =>
           IF JSONParse(TagsGiven(r).s).ok
           THEN PassedOn(r, JSONParse(TagsGiven(r).s).val)
           ELSE /\ PassedOn(r, SplitTrimmed(TagsGiven(r).s))
                /\ OnlyTagsInDoubt(r) => Calls(r, "upload") # {}
      /\ TagsGiven(r) \in {TwoTags, Str(TagsJson), Str(TagsList)} =>
           /\ PassedOn(r, TwoTags)
           /\ messages[r] # NoMessages => messages[r].form.tags = TagsJson
      /\ TagsGiven(r) = Str(<<NumTok(2020)>>) => PassedOn(r, Num(2020))
      /\ (TagsGiven(r) = Str(<<Lit("null")>>) /\ Started(r)) =>
           /\ responses[r] = <<Response(400, BadRequest)>>
           /\ messages[r] = NoMessages

C16_Witness ==
  \E r \in Reqs :
    /\ IsPost(r) /\ TagsGiven(r) = Str(TagsList)
    /\ sent[r].given
    /\ Get(sent[r].doc, "tags") = TwoTags
    /\ messages[r].form.tags = TagsJson

\* a field of the form is missing, empty or null: the empty string for the
\* text fields; for the tags also the empty string, the empty list and a
\* JSON string that parses to the empty list or to null
EmptyField(r) ==
  \/ \E f \in {"brand", "model", "description"} :
       Get(req[r].body, f) \in {Undefined, Null, Str(<<>>)}
  \/ TagsGiven(r) \in
       {Undefined, Null, Str(<<>>), Arr(<<>>), Str(<<P("["), P("]")>>),
        Str(<<Lit("null")>>)}

\* C17: validatePost answers 400 and makes no external call whenever a field
\* is missing, empty or null, the tags given as '', [], '[]' or 'null'
\* included
C17_EmptyFieldRejected ==
  \A r \in Reqs :
    (IsPost(r) /\ HasBody(r) /\ Started(r) /\ EmptyField(r)) =>
      /\ responses[r] = <<Response(400, BadRequest)>>
      /\ ExternalCalls(r) = {}

\* the number of calls of each kind a request made
AtMostOnce(r, op) == Cardinality(Calls(r, op)) <= 1
Uploads(r, i) == Cardinality(FileCalls(r, "upload", i))
PassedValidation(r) ==
  IsPost(r) /\ Started(r) /\ HasBody(r) /\ ~FieldMissing(r)

\* C18 (as stated): in any request the completion service and the
\* persistence service are called at most once and the media store exactly
\* once per attached file, whatever the calls return or throw
C18_EachCallOnce ==
  \A r \in Reqs :
    Started(r) =>
      /\ AtMostOnce(r, "completion")
      /\ AtMostOnce(r, "fetch")
      /\ IsPost(r) => \A i \in 1..NumImages(r) : Uploads(r, i) = 1

\* C18 (amended): in any request the completion service and the persistence
\* service are called at most once and the media store at most once per
\* attached file; in a validatePost request that passed input validation
\* the media store is called exactly once per attached file, whatever the
\* calls return or throw
C18_NoCallRetried ==
  \A r \in Reqs :
    Started(r) =>
      /\ AtMostOnce(r, "completion")
      /\ AtMostOnce(r, "fetch")
      /\ Calls(r, "upload") # {} => IsPost(r)
      /\ IsPost(r) => \A i \in 1..NumImages(r) : Uploads(r, i) <= 1
      /\ PassedValidation(r) => \A i \in 1..NumImages(r) : Uploads(r, i) = 1
      /\ (IsPost(r) /\ ~PassedValidation(r)) => Calls(r, "upload") = {}

C18_Witness ==
  \E r \in Reqs :
    /\ PassedValidation(r) /\ NumImages(r) = 2 /\ pc[r] = "done"
    /\ Calls(r, "fetch.throws") # {}
    /\ Uploads(r, 1) = 1 /\ Uploads(r, 2) = 1
    /\ Cardinality(Calls(r, "completion")) = 1
    /\ Cardinality(Calls(r, "fetch")) = 1

\* the position of the completion call in the trace, and what came before
Before(r, op, i, k) == \E j \in FileCalls(r, op, i) : j < k
UploadFailed(r) == Calls(r, "upload.throws") # {}

\* C19 (as stated): validatePost calls the completion service only after
\* the upload of every attached file succeeded; when an upload fails no
\* completion call and no persistence call is made and the response is 500
\* with the message of the upload error
C19_UploadFailureAborts ==
  \A r \in Reqs :
    IsPost(r) =>
      /\ \A k \in Calls(r, "completion") :
           /\ ~UploadFailed(r)
           /\ \A i \in 1..NumImages(r) :
                /\ Before(r, "upload", i, k)
                /\ Before(r, "read", i, k)
                /\ task[r][i].state = "resolved"
      /\ UploadFailed(r) =>
           /\ Calls(r, "completion") = {}
           /\ Calls(r, "fetch") = {}
           /\ responses[r] =
                <<Response(500, ServerErrorPayload("Cloudinary upload failed"))>>

\* C19 (amended): validatePost calls the completion service only after the
\* upload of every attached file succeeded; when an upload fails no
\* completion call and no persistence call is made and the response is 500
\* with the message of the first failure of the request: the message of the
\* upload error unless the read of another file failed before
C19_FirstFailureAborts ==
  \A r \in Reqs :
    IsPost(r) =>
      /\ \A k \in Calls(r, "completion") :
           /\ ~UploadFailed(r)
           /\ \A i \in 1..NumImages(r) :
                /\ Before(r, "upload", i, k)
                /\ Before(r, "read", i, k)
                /\ task[r][i].state = "resolved"
      /\ UploadFailed(r) =>
           /\ Calls(r, "completion") = {}
           /\ Calls(r, "fetch") = {}
           /\ responses[r] =
                <<Response(500,
                    ServerErrorPayload(MessageOf(trace[r][Min(Throws(r))].op)))>>
           /\ Calls(r, "read.throws") = {} =>
                responses[r] =
                  <<Response(500, ServerErrorPayload("Cloudinary upload failed"))>>

C19_Witness ==
  \E r \in Reqs :
    /\ IsPost(r) /\ NumImages(r) = 2 /\ pc[r] = "done"
    /\ FileCalls(r, "upload.throws", 2) # {}
    /\ task[r][1].state = "resolved"
    /\ Calls(r, "completion") = {}
    /\ responses[r] =
         <<Response(500, ServerErrorPayload("Cloudinary upload failed"))>>

\* C20: validatePost uploads to the media store only for submissions the
\* model accepted: no upload is made before the verdict has been extracted,
\* so a rejected submission, a failed completion call or a failed extraction
\* leaves nothing in the media store
C20_UploadOnlyWhenAccepted ==
  \A r \in Reqs :
    IsPost(r) =>
      \A k \in Calls(r, "upload") :
        /\ Accepted(r)
        /\ \E j \in Calls(r, "completion") : j < k

\* an identifyCar request that carries an uploaded file on disk
CarWithFile(r) == IsCar(r) /\ req[r].file.given /\ req[r].file.path = 1
\* the response identifyCar owes on each exit path, whatever the deletion does
CarOutcome(r) ==
  IF Calls(r, "read.throws") # {}
  THEN Response(500, CarError("ENOENT: no such file or directory"))
  ELSE IF Calls(r, "completion.throws") # {}
  THEN Response(500, CarError("GPT API Error"))
  ELSE CarResult(reply[r]).response

\* C21: identifyCar attempts the deletion of the uploaded file exactly once
\* on every exit path (object returned, extraction failure, exception from
\* the file read or the completion call), never before it answered; a
\* deletion that fails is logged as a warning and leaves the response as it is
C21_CarFileUnlinkedOnce ==
  \A r \in Reqs :
    CarWithFile(r) =>
      /\ pc[r] = "done" =>
           /\ Cardinality(FileCalls(r, "unlink", 1)) = 1
           /\ responses[r] = <<CarOutcome(r)>>
           /\ Cardinality(FileCalls(r, "log.warn", 1)) <= 1
           /\ FileCalls(r, "log.warn", 1) = {} => <<r, 1>> \notin fs
           /\ \A k \in FileCalls(r, "log.warn", 1) :
                \E j \in FileCalls(r, "unlink", 1) : j < k
      /\ pc[r] # "done" => Calls(r, "unlink") = {}

C21_Witness ==
  \E r \in Reqs :
    /\ CarWithFile(r) /\ pc[r] = "done"
    /\ reply[r] = Str(ProseText)
    /\ FileCalls(r, "log.warn", 1) # {}
    /\ Cardinality(FileCalls(r, "unlink", 1)) = 1
    /\ responses[r][1].status = 500

\* the url the media store returned for file i of request r
UrlOf(r, i) ==
  Str(<<Word("https://res.cloudinary.com/posts/"), Word(r), NumTok(i)>>)
\* file 2 was uploaded and read before file 1
SecondFileFirst(r) ==
  \E j \in FileCalls(r, "read", 2) : \A k \in FileCalls(r, "read", 1) : j < k

\* C22: the document validatePost sends to the persistence service holds the
\* brand, model and description of the request, the parsed tags and the urls
\* of the uploads in the order of the attached files, whatever order the
\* uploads completed in; the Authorization header of the request is passed on
C22_DocumentSent ==
  \A r \in Reqs :
    (IsPost(r) /\ sent[r].given) =>
      /\ Calls(r, "fetch") # {}
      /\ Get(sent[r].doc, "brand") = Get(req[r].body, "brand")
      /\ Get(sent[r].doc, "model") = Get(req[r].body, "model")
      /\ Get(sent[r].doc, "description") = Get(req[r].body, "description")
      /\ Get(sent[r].doc, "tags") = ParseTags(TagsGiven(r))
      /\ Get(sent[r].doc, "images") =
           Arr([i \in 1..Len(req[r].files.paths) |-> UrlOf(r, i)])
      /\ [i \in 1..Len(sent[r].doc.members) |-> sent[r].doc.members[i].k] =
           <<"brand", "model", "description", "tags", "images">>
      /\ sent[r].authorization = req[r].authorization
      /\ req[r].authorization = S("Bearer token")

C22_Witness ==
  \E r \in Reqs :
    /\ IsPost(r) /\ sent[r].given /\ NumImages(r) = 2
    /\ SecondFileFirst(r)
    /\ TagsGiven(r) = Str(TagsList)
    /\ Get(sent[r].doc, "tags") = TwoTags
    /\ Get(sent[r].doc, "images") = Arr(<<UrlOf(r, 1), UrlOf(r, 2)>>)

\* a step of request r leaves every variable of the other requests, and
\* their temporary files, as they were
OthersUntouched(r) ==
  \A q \in Reqs \ {r} :
    /\ req'[q] = req[q] /\ pc'[q] = pc[q] /\ task'[q] = task[q]
    /\ reply'[q] = reply[q] /\ parsed'[q] = parsed[q]
    /\ bddResponse'[q] = bddResponse[q] /\ bddResult'[q] = bddResult[q]
    /\ sent'[q] = sent[q] /\ messages'[q] = messages[q]
    /\ trace'[q] = trace[q] /\ responses'[q] = responses[q]
    /\ \A i \in 1..MaxFiles : (<<q, i>> \in fs') = (<<q, i>> \in fs)
\* the response of each request is the one its own inputs and the replies to
\* its own calls determine
OutcomeByOwnState ==
  /\ C3_ThrowAnswered500
  /\ C5_CreatedAnswered201
  /\ C6_PersistenceFailureAnswered500
  /\ C7_RejectionEchoed400
  /\ C8_DataVerdictAnswered200
  /\ C21_CarFileUnlinkedOnce
  /\ \A r \in Reqs : \A k \in Calls(r, "unlink") : trace[r][k].file \in 1..MaxFiles

\* C23: under any interleaving of two requests, every step of a request
\* changes only that request's own state and deletes only its own files, and
\* the response of each request is determined by its own state
C23_RequestsIsolated ==
  /\ []OutcomeByOwnState
  /\ [][\E r \in Reqs : OthersUntouched(r)]_vars

C23_Witness ==
  /\ IsPost("r1") /\ IsPost("r2")
  /\ pc["r1"] = "done" /\ responses["r1"][1].status = 201
  /\ <<"r1", 1>> \notin fs
  /\ pc["r2"] = "awaitGPT" /\ <<"r2", 1>> \in fs
  /\ Len(trace["r2"]) > 0

\* C24: in validatePost and identifyCar every deletion of a temporary file
\* comes after the response of the request was issued; a request that passed
\* input validation and has finished issued its response before any deletion
C24_ResponseBeforeCleanup ==
  \A r \in Reqs :
    (IsPost(r) \/ IsCar(r)) =>
      /\ \A k \in Calls(r, "unlink") :
           /\ \E j \in Calls(r, "respond") : j < k
           /\ Len(responses[r]) = 1
      /\ \A i \in 1..MaxFiles :
           (<<r, i>> \in TempFiles(r, req[r]) /\ <<r, i>> \notin fs) =>
             \E k \in FileCalls(r, "unlink", i) :
               \E j \in Calls(r, "respond") : j < k
      /\ ((PassedValidation(r) \/ CarWithFile(r)) /\ pc[r] = "done") =>
           /\ Calls(r, "unlink") # {}
           /\ Cardinality(Calls(r, "respond")) = 1

C24_Witness ==
  \E r \in Reqs :
    /\ IsPost(r) /\ NumImages(r) = 2 /\ pc[r] = "done"
    /\ reply[r] = Str(RejectText)
    /\ responses[r][1].status = 400
    /\ \A i \in 1..2 : FileCalls(r, "unlink", i) # {}
    /\ fs = {}

\* the handler treated the extraction as successful and routed the value:
\* validatePost echoed it with 400 or went on to the persistence call,
\* validateData and identifyCar answered 200
Routed(r) ==
  /\ reply[r] # Undefined
  /\ \/ IsPost(r) /\ sent[r].given
     \/ /\ Len(responses[r]) = 1
        /\ \/ IsPost(r) /\ responses[r][1].status = 400
           \/ (IsData(r) \/ IsCar(r)) /\ responses[r][1].status = 200

\* C25: whenever a handler routes an extracted value as an acceptance or a
\* rejection (identifyCar: returns it), the value is a JSON object with a
\* boolean success member
C25_RoutedValueIsVerdict ==
  \A r \in Reqs :
    Routed(r) =>
      /\ parsed[r].t = "obj"
      /\ Get(parsed[r], "success").t = "bool"

\* the invocation has returned or thrown
Ended(r) == pc[r] \in {"done", "rejected"}

\* C26: every invocation of validatePost, validateData and identifyCar issues
\* exactly one response, whatever the shape of the request and whatever the
\* collaborators return or throw
C26_ExactlyOneResponse ==
  \A r \in Reqs :
    /\ Len(responses[r]) <= 1
    /\ Ended(r) => Len(responses[r]) = 1

\* an upload task of the request has not settled
InFlightTasks(r) == {i \in 1..Len(task[r]) : task[r][i].state = "inflight"}
\* the finally block of the request has started deleting its files
CleanupStarted(r) == Calls(r, "unlink") # {}
\* C27: in validatePost with two or more files, no temporary file is deleted
\* while an upload or a read of a file of the same request is in flight: once
\* cleanup has started, every upload task of the request has settled
C27_NoCleanupWhileInFlight ==
  \A r \in Reqs :
    (IsPost(r) /\ NumImages(r) >= 2 /\ CleanupStarted(r)) => InFlightTasks(r) = {}

\* the upload and the read of file i both came before position c of the trace
UploadedBefore(r, i, c) ==
  \E u \in FileCalls(r, "upload", i), d \in FileCalls(r, "read", i) :
    u < d /\ d < c
\* C28: validatePost calls the persistence service only after, in this
\* order, input validation passed, every upload succeeded, the completion
\* call returned and the reply was extracted to a value with truthy success;
\* never after a rejection, an extraction failure, or a failed upload or
\* completion call
C28_PersistOnlyAfterAcceptance ==
  \A r \in Reqs :
    \A k \in Calls(r, "fetch") :
      /\ PassedValidation(r)
      /\ \A i \in 1..NumImages(r) : task[r][i].state = "resolved"
      /\ \E c \in Calls(r, "completion") :
           /\ c < k
           /\ \A i \in 1..NumImages(r) : UploadedBefore(r, i, c)
      /\ Replied(r)
      /\ ExtractPost(reply[r]).ok
      /\ parsed[r] = ExtractPost(reply[r]).val
      /\ Truthy(Get(parsed[r], "success"))
      /\ Calls(r, "upload.throws") = {}
      /\ Calls(r, "read.throws") = {}
      /\ Calls(r, "completion.throws") = {}
      /\ \A j \in Calls(r, "respond") : k < j

C28_Witness ==
  \E r \in Reqs :
    /\ PassedValidation(r) /\ NumImages(r) = 2 /\ pc[r] = "done"
    /\ Calls(r, "fetch") # {}
    /\ trace[r][1] = Ev("upload", 1) /\ trace[r][3] = Ev("read", 2)
    /\ Get(parsed[r], "success") = Bool(TRUE)
    /\ responses[r][1].status = 201

\* validateData reached its keyword heuristic: the cleaned reply is not JSON
\* and has no brace-delimited fragment
HeuristicReached(r) ==
  /\ IsData(r) /\ pc[r] = "done" /\ Replied(r)
  /\ ~JSONParse(Cleaned(r)).ok
  /\ ~NarrowMatch(Cleaned(r)).found
SuccessOnly(b) == Obj(<<Member("success", Bool(b))>>)
\* C29: in the keyword heuristic of validateData, a cleaned reply that
\* contains 'success' and 'true' gives {success: true}, also when it contains
\* 'false'; {success: false} is produced only when 'true' appears nowhere in
\* the text, not even inside another word
C29_TrueTakesPrecedence ==
  \A r \in Reqs :
    (HeuristicReached(r) /\ Includes(Cleaned(r), "success")) =>
      /\ Includes(Cleaned(r), "true") =>
           /\ parsed[r] = SuccessOnly(TRUE)
           /\ responses[r] = <<Response(200, Validated)>>
      /\ (~Includes(Cleaned(r), "true") /\ Includes(Cleaned(r), "false")) =>
           /\ parsed[r] = SuccessOnly(FALSE)
           /\ responses[r] = <<Response(200, Inappropriate)>>
      /\ parsed[r] = SuccessOnly(FALSE) => ~Includes(Cleaned(r), "true")

C29_Witness ==
  \E r \in Reqs :
    /\ HeuristicReached(r)
    /\ reply[r] = Str(SubstringText)
    /\ Includes(Cleaned(r), "false")
    /\ parsed[r] = SuccessOnly(TRUE)

\* the handler was invoked
Invoked(r) == pc[r] # "unused"
\* the deletion of every temporary file of the request has been attempted
CleanedUp(r) ==
  /\ IsPost(r) => \A i \in 1..NumImages(r) : FileCalls(r, "unlink", i) # {}
  /\ CarWithFile(r) => FileCalls(r, "unlink", 1) # {}
\* no loop: every step of a handler starts it or adds calls to its trace, so
\* no state is visited twice
EveryStepAdvances ==
  [][\E r \in Reqs : \/ Len(trace'[r]) > Len(trace[r])
                     \/ pc[r] = "idle" /\ pc'[r] # "idle"]_vars
\* C30: provided every external call eventually returns or fails, every
\* invocation of validatePost, validateData and identifyCar eventually issues
\* its response and completes its cleanup: an invocation that has come to
\* its end has issued its response and attempted the deletion of every
\* temporary file it was given (after its end no code of the handler runs)
C30_EndsRespondedAndCleaned ==
  \A r \in Reqs :
    Ended(r) => (Len(responses[r]) = 1 /\ CleanedUp(r))
====
